---------------------------- MODULE Spec2Model ----------------------------
(***************************************************************************)
(* Alert dispatch pipeline of the notification service.                    *)
(*                                                                         *)
(* Each worker is one running instance of the service (one member of the   *)
(* Kafka consumer group).  It owns its Redis client, and handles one       *)
(* message at a time: eachMessage is modelled as a chain of steps, one per *)
(* awaited call.  The Redis server (leases), the relational store (db) and *)
(* the clock are shared by all workers.                                    *)
(***************************************************************************)
EXTENDS Integers, Sequences, FiniteSets, TLC

(***************************************************************************)
(* Optional values (null / undefined) are sequences of length 0 or 1.      *)
(***************************************************************************)
None == <<>>
Some(x) == <<x>>
IsNone(o) == Len(o) = 0
IsSome(o) == Len(o) = 1
Get(o) == o[1]
Option(S) == {None} \cup {Some(x) : x \in S}
\* b || a: the second operand preferred
OrElseSecondFirst(a, b) == IF IsSome(b) THEN b ELSE a
\* JavaScript  a || b  over optional strings
OrElse(a, b) == IF IsSome(a) THEN a ELSE b

(***************************************************************************)
(* Bounds of the model.                                                    *)
(***************************************************************************)
TickStep == 1800
MaxTime == 3600

(***************************************************************************)
(* Program constants.                                                      *)
(***************************************************************************)
DEDUP_TTL_SECONDS == 3600

Workers == {"w1", "w2"}
Channels == {"EMAIL", "SMS", "WEBHOOK", "VOICE"}
Severities == {"LOW", "MEDIUM", "HIGH", "CRITICAL"}
SubscriptionPlan == {"FREE", "BASIC", "PRO"}
\* JSON values a feature flag is modelled with
FlagValues == {"true", "false", "undefined"}

(***************************************************************************)
(* subscription.service.ts                                                 *)
(***************************************************************************)
\* a row of the user table with its two optional relations
Subscriptions == [plan : SubscriptionPlan, sms : FlagValues]
NotificationSettingsRows ==
    [phoneNumber : Option({"+db"}), emailEnabled : BOOLEAN,
     phoneEnabled : BOOLEAN, minSeverityForCall : {"HIGH", "CRITICAL"}]
UserRows ==
    [email : Option({"db@mail"}), subscription : Option(Subscriptions),
     notificationSettings : Option(NotificationSettingsRows)]

\* the object getUserContext builds from a row that was found
ContextOf(id, user) ==
    LET sub == user.subscription
        ns  == user.notificationSettings
    IN  [userId   |-> id,
         email    |-> user.email,
         phone    |-> IF IsSome(ns) THEN Get(ns).phoneNumber ELSE None,
         plan     |-> IF IsSome(sub) THEN Get(sub).plan ELSE "FREE",
         features |-> [sms |-> IF IsSome(sub) THEN Get(sub).sms ELSE "undefined"],
         settings |-> [emailEnabled |-> IF IsSome(ns) THEN Get(ns).emailEnabled ELSE TRUE,
                       phoneEnabled |-> IF IsSome(ns) THEN Get(ns).phoneEnabled ELSE FALSE,
                       minSeverityForCall |->
                           IF IsSome(ns) THEN Get(ns).minSeverityForCall ELSE "CRITICAL"]]

\* getUserContext without the  if (!user) return null  line: a missing row
\* yields the context of defaults
getUserContextNoNullCheck(store, id, dbError) ==
    IF dbError THEN None
    ELSE IF IsNone(store[id])
    THEN Some(ContextOf(id, [email |-> None, subscription |-> None,
                             notificationSettings |-> None]))
    ELSE Some(ContextOf(id, Get(store[id])))

\* getUserContext: null when the row is missing or the query throws
getUserContext(store, id, dbError) ==
    IF dbError THEN None
    ELSE IF IsNone(store[id]) THEN None
    ELSE Some(ContextOf(id, Get(store[id])))

\* canSendNotification with the SMS branch not reading settings.phoneEnabled
canSendNotificationSmsAnySetting(context, channel, severity) ==
    IF channel = "EMAIL" THEN context.settings.emailEnabled
    ELSE IF channel = "SMS" THEN
        (context.plan = "PRO" \/ context.features.sms = "true")
    ELSE IF channel = "VOICE" THEN
        (context.plan = "PRO" /\ severity = "CRITICAL")
    ELSE FALSE

\* canSendNotification with the VOICE branch not reading the plan
canSendNotificationVoiceAnyPlan(context, channel, severity) ==
    IF channel = "EMAIL" THEN context.settings.emailEnabled
    ELSE IF channel = "SMS" THEN
        (context.settings.phoneEnabled
         /\ (context.plan = "PRO" \/ context.features.sms = "true"))
    ELSE IF channel = "VOICE" THEN severity = "CRITICAL"
    ELSE FALSE

\* canSendNotification with the VOICE branch comparing the severity with the
\* stored settings.minSeverityForCall
canSendNotificationVoiceThreshold(context, channel, severity) ==
    LET rank == [x \in Severities |->
                    CASE x = "LOW" -> 0 [] x = "MEDIUM" -> 1
                      [] x = "HIGH" -> 2 [] x = "CRITICAL" -> 3]
    IN  IF channel = "EMAIL" THEN context.settings.emailEnabled
        ELSE IF channel = "SMS" THEN
            (context.settings.phoneEnabled
             /\ (context.plan = "PRO" \/ context.features.sms = "true"))
        ELSE IF channel = "VOICE" THEN
            (context.plan = "PRO"
             /\ rank[severity] >= rank[context.settings.minSeverityForCall])
        ELSE FALSE

\* canSendNotification with the VOICE branch not reading the severity
canSendNotificationVoiceAnySeverity(context, channel, severity) ==
    IF channel = "EMAIL" THEN context.settings.emailEnabled
    ELSE IF channel = "SMS" THEN
        (context.settings.phoneEnabled
         /\ (context.plan = "PRO" \/ context.features.sms = "true"))
    ELSE IF channel = "VOICE" THEN context.plan = "PRO"
    ELSE FALSE

canSendNotification(context, channel, severity) ==
    IF channel = "EMAIL" THEN context.settings.emailEnabled
    ELSE IF channel = "SMS" THEN
        IF ~context.settings.phoneEnabled THEN FALSE
        ELSE IF context.plan = "PRO" THEN TRUE
        ELSE IF context.features.sms = "true" THEN TRUE
        ELSE FALSE
    ELSE IF channel = "VOICE" THEN
        IF context.plan # "PRO" THEN FALSE
        ELSE IF severity # "CRITICAL" THEN FALSE
        ELSE TRUE
    ELSE FALSE


(***************************************************************************)
(* Inbound messages.  An event is the parsed JSON object; identifiers are  *)
(* strings, modelled as sequences of tokens so that a key is built by      *)
(* concatenation as the template literal builds it.                        *)
(***************************************************************************)
\* JavaScript truthiness of an optional string ("" is falsy)
Truthy(o) == IsSome(o) /\ Get(o) # <<>>
\* JavaScript  a || b || fallback  over optional strings
Or3(a, b, fallback) == IF Truthy(a) THEN Get(a) ELSE IF Truthy(b) THEN Get(b) ELSE fallback
Or4(a, b, c, fallback) == IF Truthy(a) THEN Get(a) ELSE Or3(b, c, fallback)

U1 == <<"u1">>
U2 == <<"u2">>
TX1 == <<"tx1">>
TX2 == <<"tx2">>
UNKNOWN_USER == <<"unknown_user">>
UNKNOWN_TX == <<"unknown_tx">>

UserIds == {U1, U2, UNKNOWN_USER}
TxIds == {TX1, TX2, UNKNOWN_TX}

\* the fields of an event the handler reads (camelTxId is the txId field the
\* test producer writes, which the handler does not read)
Events(users, txs, sevs, emails, phones, hooks) ==
    [userId : users, metaUserId : {None}, dataTxId : txs, tx_id : {None},
     id : {None}, camelTxId : {None}, severity : sevs, email : emails,
     phone : phones, webhookUrl : hooks]

JsonMessages(events) == {[kind |-> "json", event |-> e] : e \in events}
\* a message with no value, and one whose value is not JSON; neither carries
\* an event, the event field only keeps the record shape
OtherMessages(events) ==
    {[kind |-> k, event |-> CHOOSE e \in events : TRUE] : k \in {"empty", "malformed"}}

\* messages of the two-worker specification: one known user, with and without
\* an incident identifier, nothing else varies
KeyEvents ==
    Events({Some(U1)}, {Some(TX1), None}, {Some("CRITICAL")},
           {None}, {None}, {None})
KeyMessages == JsonMessages(KeyEvents) \cup OtherMessages(KeyEvents)

\* messages of the dispatch specification: one incident of a known user with
\* every combination of the optional fields, and of a user the store lacks
DispatchEvents ==
    Events({Some(U1)}, {Some(TX1)}, {None, Some("MEDIUM"), Some("CRITICAL")},
           {None, Some("ev@mail")}, {None, Some("+ev")}, {None, Some("http://hook")})
    \cup
    Events({Some(U2)}, {Some(TX1)}, {None, Some("CRITICAL")},
           {Some("ev@mail")}, {Some("+ev")}, {None, Some("http://hook")})
DispatchMessages == JsonMessages(DispatchEvents) \cup OtherMessages(DispatchEvents)

\* consumer.ts line 80
UserIdOf(event) == Or3(event.userId, event.metaUserId, UNKNOWN_USER)
\* line 82 with a fallback that differs from the shared 'unknown_tx'
TxIdOfOtherFallback(event) == Or4(event.dataTxId, event.tx_id, event.id, TX2)
\* consumer.ts line 82
TxIdOf(event) == Or4(event.dataTxId, event.tx_id, event.id, UNKNOWN_TX)
\* consumer.ts line 101
SeverityOf(event) == IF IsSome(event.severity) THEN Get(event.severity) ELSE "MEDIUM"

(***************************************************************************)
(* deduplication.service.ts                                                *)
(***************************************************************************)
\* `alert:${userId}:${txId}`
LeaseKey(userId, txId) == <<"alert", ":">> \o userId \o <<":">> \o txId
LeaseKeys == {LeaseKey(u, t) : u \in UserIds, t \in TxIds}

\* the Redis keyspace: key -> expiry time, 0 when the key was never set;
\* a key is there while the clock is before its expiry
Live(store, key, t) == store[key] > t

\* the SET without NX: it overwrites a key that is there
RedisSetOverwrite(store, key, ttl, t) ==
    [reply |-> "OK", store |-> [store EXCEPT ![key] = t + ttl]]

\* a SET NX that restarts the expiry of a key that is there
RedisSetNXRefreshes(store, key, ttl, t) ==
    IF Live(store, key, t)
    THEN [reply |-> "null", store |-> [store EXCEPT ![key] = t + ttl]]
    ELSE [reply |-> "OK", store |-> [store EXCEPT ![key] = t + ttl]]

\* the SET NX storing the key for twice the ttl asked for
RedisSetNXTwiceTtl(store, key, ttl, t) ==
    IF Live(store, key, t)
    THEN [reply |-> "null", store |-> store]
    ELSE [reply |-> "OK", store |-> [store EXCEPT ![key] = t + ttl + ttl]]

\* SET key 'sent' EX ttl NX at time t: the reply and the keyspace after it
RedisSetNX(store, key, ttl, t) ==
    IF Live(store, key, t)
    THEN [reply |-> "null", store |-> store]
    ELSE [reply |-> "OK", store |-> [store EXCEPT ![key] = t + ttl]]

\* what the awaited redis.set can do, given the client status the guard saw
SetOutcomes(status) == IF status = "ready" THEN {"reply", "error"} ELSE {"unavailable"}

\* shouldSendAlert taking any reply of the cache for a go
shouldSendAlertAnyReply(store, status, outcome, userId, txId, t) ==
    IF status # "ready" \/ outcome = "error"
    THEN [value |-> TRUE, viaCache |-> FALSE, store |-> store]
    ELSE [value |-> TRUE, viaCache |-> TRUE,
          store |-> RedisSetNX(store, LeaseKey(userId, txId), DEDUP_TTL_SECONDS, t).store]

\* shouldSendAlert holding the alert back when the cache is away (fail-closed)
shouldSendAlertFailClosed(store, status, outcome, userId, txId, t) ==
    IF status # "ready" \/ outcome = "error"
    THEN [value |-> FALSE, viaCache |-> FALSE, store |-> store]
    ELSE LET r == RedisSetNX(store, LeaseKey(userId, txId), DEDUP_TTL_SECONDS, t)
         IN  [value |-> (r.reply = "OK"), viaCache |-> TRUE, store |-> r.store]

\* shouldSendAlert: the value returned, whether the cache answered, and the
\* keyspace after the call
shouldSendAlert(store, status, outcome, userId, txId, t) ==
    IF status # "ready"
    THEN [value |-> TRUE, viaCache |-> FALSE, store |-> store]
    ELSE IF outcome = "error"
    THEN [value |-> TRUE, viaCache |-> FALSE, store |-> store]
    ELSE LET r == RedisSetNX(store, LeaseKey(userId, txId), DEDUP_TTL_SECONDS, t)
         IN  [value |-> (r.reply = "OK"), viaCache |-> TRUE, store |-> r.store]


(***************************************************************************)
(* Channel adapters (email, sms, call, webhook services).  Each one logs   *)
(* when its provider is not configured; otherwise it calls the provider    *)
(* inside try/catch, so the caller sees a normal return either way.        *)
(***************************************************************************)
\* adapters that call the provider without looking at their client
AdapterOutcomesNoClientCheck(channel, creds) == {"delivered", "failed"}
AdapterOutcomes(channel, creds) ==
    IF channel = "WEBHOOK" THEN {"delivered", "failed"}
    ELSE IF channel \in creds THEN {"delivered", "failed"}
    ELSE {"logged"}

\* an adapter that lets the provider's error out to its caller
AdapterReturnRethrows(o) == IF o = "failed" THEN "e1" ELSE "undefined"
\* what the caller of an adapter gets when the provider call did o: the
\* promise resolves (to undefined) in every case, the catch block only logs
AdapterReturn(o) == "undefined"

(***************************************************************************)
(* webhook.service.ts: the request sendWebhookNotification builds.         *)
(* Strings are sequences of tokens; JSON.stringify walks the members that  *)
(* are defined; the HMAC is a constructor over its key and message, equal  *)
(* only for equal key and message.                                         *)
(***************************************************************************)
Digit(d) == <<"0", "1", "2", "3", "4", "5", "6", "7", "8", "9">>[d + 1]
\* Number.prototype.toString in base 10
RECURSIVE NumberToString(_)
NumberToString(n) ==
    IF n < 10 THEN <<Digit(n)>>
    ELSE NumberToString(n \div 10) \o <<Digit(n % 10)>>

\* one member of a JSON object: nothing when the value is undefined
JsonMember(name, o) ==
    IF IsSome(o) THEN <<<<"\"", name, "\"", ":", "\"">> \o Get(o) \o <<"\"">>>>
    ELSE <<>>
RECURSIVE JoinMembers(_)
JoinMembers(ms) ==
    IF ms = <<>> THEN <<>>
    ELSE IF Len(ms) = 1 THEN Head(ms)
    ELSE Head(ms) \o <<",">> \o JoinMembers(Tail(ms))
JsonObject(ms) == <<"{">> \o JoinMembers(ms) \o <<"}">>
\* a member holding an object with one string member, as meta and data do
JsonNested(name, inner, o) ==
    IF IsSome(o)
    THEN <<<<"\"", name, "\"", ":">> \o JsonObject(JsonMember(inner, o))>>
    ELSE <<>>
\* a plain string as a token sequence
Str(o) == IF IsSome(o) THEN Some(<<Get(o)>>) ELSE None

\* JSON.stringify of an event
StringifyEvent(ev) ==
    JsonObject(JsonMember("userId", ev.userId)
               \o JsonNested("meta", "user_id", ev.metaUserId)
               \o JsonNested("data", "tx_id", ev.dataTxId)
               \o JsonMember("tx_id", ev.tx_id)
               \o JsonMember("id", ev.id)
               \o JsonMember("txId", ev.camelTxId)
               \o JsonMember("severity", Str(ev.severity))
               \o JsonMember("email", Str(ev.email))
               \o JsonMember("phone", Str(ev.phone))
               \o JsonMember("webhookUrl", Str(ev.webhookUrl)))
\* JSON.stringify of the data the handler posts, { userId, event }
JsonStringify(data) ==
    <<"{", "\"", "userId", "\"", ":", "\"">> \o data.userId
        \o <<"\"", ",", "\"", "event", "\"", ":">>
        \o StringifyEvent(data.event) \o <<"}">>

\* crypto.createHmac('sha256', secret).update(payload).digest('hex')
generateSignature(payload, secret) ==
    [alg |-> "hmac-sha256-hex", key |-> secret, message |-> payload]

\* the signed string without the timestamp
SignaturePayloadBodyOnly(timestamp, payloadString) == payloadString
\* line 49: `${timestamp}.${payloadString}`
SignaturePayload(timestamp, payloadString) ==
    timestamp \o <<".">> \o payloadString

\* the body axios puts on the wire for a plain object: its JSON text
AxiosBody(data) == JsonStringify(data)

\* the request with the version header set whether or not it is signed
WebhookRequestVersionAlways(url, data, secret, ms) ==
    LET timestamp == NumberToString(ms)
        payloadString == JsonStringify(data)
        sign == Truthy(secret)
    IN  [url |-> url,
         body |-> AxiosBody(data),
         headers |->
            [contentType |-> "application/json",
             timestamp |-> timestamp,
             signature |->
                IF sign
                THEN Some(generateSignature(
                         SignaturePayload(timestamp, payloadString), Get(secret)))
                ELSE None,
             signatureVersion |-> Some("v1")]]

\* lines 39-61: the request posted for url, data and secret at clock ms
WebhookRequest(url, data, secret, ms) ==
    LET timestamp == NumberToString(ms)
        payloadString == JsonStringify(data)
        sign == Truthy(secret)
    IN  [url |-> url,
         body |-> AxiosBody(data),
         headers |->
            [contentType |-> "application/json",
             timestamp |-> timestamp,
             signature |->
                IF sign
                THEN Some(generateSignature(
                         SignaturePayload(timestamp, payloadString), Get(secret)))
                ELSE None,
             signatureVersion |-> IF sign THEN Some("v1") ELSE None]]

(***************************************************************************)
(* consumer.ts: retry.  fn is given by what its successive invocations do: *)
(* outs[i] is the value the i-th invocation resolves to, or the error it   *)
(* rejects with.  The result records whether retry threw, the value        *)
(* returned or the error thrown, the number of invocations made and the    *)
(* delays waited, in order.                                                *)
(***************************************************************************)
MAX_RETRIES == 3
BACKOFF_BASE_MS == 2000

Errors == {"e1", "e2"}
IsError(x) == x \in Errors

\* the test of line 39 with >= in place of >
ExhaustedAtRetries(attempt, retries) == attempt >= retries
\* line 39: if (attempt > retries) throw err
Exhausted(attempt, retries) == attempt > retries

\* line 44 without the doubling
NextBackoffConstant(backoffMs) == backoffMs
\* line 44: backoffMs *= 2
NextBackoff(backoffMs) == backoffMs * 2

\* lines 34-46: the loop, entered with `calls` invocations made so far
RECURSIVE retryLoop(_, _, _, _, _, _)
retryLoop(outs, calls, attempt, retries, backoffMs, waits) ==
    LET r == outs[calls + 1]
    IN  IF ~IsError(r)
        THEN [threw |-> FALSE, value |-> r, calls |-> calls + 1, waits |-> waits]
        ELSE IF Exhausted(attempt + 1, retries)
        THEN [threw |-> TRUE, value |-> r, calls |-> calls + 1, waits |-> waits]
        ELSE retryLoop(outs, calls + 1, attempt + 1, retries,
                       NextBackoff(backoffMs), Append(waits, backoffMs))

retry(outs, retries, backoffMs) == retryLoop(outs, 0, 0, retries, backoffMs, <<>>)

\* what the provider of a channel does at the successive calls one channel
\* block can make: it may fail any number of times before it recovers
ProviderRuns(channel, creds) ==
    {run \in [1..(MAX_RETRIES + 1) -> AdapterOutcomes(channel, creds)] :
        \A i \in 1..MAX_RETRIES : run[i] # "failed" => run[i + 1] = run[i]}

(***************************************************************************)
(* One awaited adapter call against a provider that answers after a        *)
(* latency, or never.  Only sendWebhookNotification passes a timeout to    *)
(* its client; the email, SMS and call adapters await the provider call as *)
(* it is.                                                                  *)
(***************************************************************************)
\* webhook.service.ts line 37: the default of timeoutMs
timeoutMs == 5000

\* the timeout an adapter hands to its provider client, None when it hands
\* none
CallTimeout(channel) == IF channel = "WEBHOOK" THEN Some(timeoutMs) ELSE None

\* the provider's latencies, in ms; None is a provider that never answers
MaxLatencyMs == 9000
LatencyStep == 500
Latencies == Option({l \in 0..MaxLatencyMs : l % LatencyStep = 0})

\* the latency is beyond the timeout t
Exceeds(latency, t) == IsNone(latency) \/ Get(latency) > t

\* the adapter of a channel called once: when its promise settles (None:
\* never), what the provider call did, and what the caller, retry, gets
AdapterCall(channel, creds, latency, answer) ==
    LET t == CallTimeout(channel)
    IN  IF channel # "WEBHOOK" /\ channel \notin creds
        THEN [settledAfter |-> Some(0), outcome |-> "logged",
              returned |-> Some(AdapterReturn("logged"))]
        ELSE IF IsSome(t) /\ Exceeds(latency, Get(t))
        THEN [settledAfter |-> t, outcome |-> "failed",
              returned |-> Some(AdapterReturn("failed"))]
        ELSE IF IsNone(latency)
        THEN [settledAfter |-> None, outcome |-> "pending", returned |-> None]
        ELSE [settledAfter |-> latency, outcome |-> answer,
              returned |-> Some(AdapterReturn(answer))]

(***************************************************************************)
(* State.                                                                  *)
(***************************************************************************)
VARIABLES
    now,          \* the clock, in seconds
    leases,       \* the Redis keyspace: lease key -> expiry time
    redisStatus,  \* per worker: "null" (no client), "connecting" or "ready"
    db,           \* the user table: user id -> optional row
    configured,   \* channels whose provider credentials are set
    pc,           \* per worker: where its handler stands
    event,        \* per worker: the event being handled (or handled last)
    shouldSend,   \* per worker: outcome of the duplicate check of that event
    claimedAt,    \* per worker: while it handles an event the cache let through,
                  \* the time of that answer (0 otherwise)
    userContext,  \* per worker: the context resolved for that event
    sent,         \* per worker: adapter calls made for that event
    lastAttempt,  \* per worker: what the last adapter call did
    audit,        \* per worker: the alert event produced for that event
    outcome,      \* per worker: how the handler ended
    dispatched,   \* lease key -> claim times of the events that sent under it
    probe,        \* the last permission question asked outside the handler
    retried,      \* the last call of retry made outside the handler
    partition,    \* per worker: the partition of the message being handled
    auditCalls,   \* per worker: calls of produceAlertEvent for that event
    request,      \* the last webhook request built outside the handler
    upgraded,     \* the users whose plan was raised between two events,
                  \* after an event of theirs was handled under FREE
    awaited       \* the last adapter call awaited outside the handler

vars == <<now, leases, redisStatus, db, configured, pc, event, shouldSend,
          claimedAt, userContext, sent, lastAttempt, audit, outcome, dispatched,
          probe, retried, partition, auditCalls, request, upgraded,
          awaited>>

\* the partitions of the topic and their assignment to the members of the
\* consumer group: two to the first instance, one to the second
Partitions == {0, 1, 2}
Assigned == [w \in Workers |-> IF w = "w1" THEN {0, 1} ELSE {2}]
\* the partition an instance consumes where only one is looked at
HomePartition == [w \in Workers |-> IF w = "w1" THEN 0 ELSE 2]

NoEvent == CHOOSE e \in KeyEvents : TRUE
NotChecked == [value |-> FALSE, viaCache |-> FALSE, done |-> FALSE]

\* the row of a PRO user with every contact and every channel enabled
ProRow ==
    [email |-> Some("db@mail"),
     subscription |-> Some([plan |-> "PRO", sms |-> "undefined"]),
     notificationSettings |->
         Some([phoneNumber |-> Some("+db"), emailEnabled |-> TRUE,
               phoneEnabled |-> TRUE, minSeverityForCall |-> "CRITICAL"])]

\* rows of the dispatch specification
DispatchRows ==
    {r \in UserRows :
        /\ IsSome(r.subscription) /\ IsSome(r.notificationSettings)
        /\ Get(r.subscription).plan \in {"FREE", "PRO"}
        /\ Get(r.subscription).sms = "undefined"
        /\ Get(r.notificationSettings).minSeverityForCall = "CRITICAL"}

InitWorkers ==
    /\ pc = [w \in Workers |-> "idle"]
    /\ event = [w \in Workers |-> NoEvent]
    /\ shouldSend = [w \in Workers |-> NotChecked]
    /\ claimedAt = [w \in Workers |-> 0]
    /\ userContext = [w \in Workers |-> None]
    /\ sent = [w \in Workers |-> {}]
    /\ lastAttempt = [w \in Workers |-> "none"]
    /\ audit = [w \in Workers |-> None]
    /\ outcome = [w \in Workers |-> "none"]
    /\ dispatched = [k \in LeaseKeys |-> <<>>]
    /\ probe = None
    /\ retried = None
    /\ partition = HomePartition
    /\ auditCalls = [w \in Workers |-> 0]
    /\ request = None
    /\ upgraded = {}
    /\ awaited = None

\* two workers, one PRO user in the store; the Redis client of a worker is
\* connecting, or absent when its construction failed
Init ==
    /\ now = 0
    /\ leases = [k \in LeaseKeys |-> 0]
    /\ redisStatus \in [Workers -> {"null", "connecting"}]
    /\ redisStatus["w1"] = "connecting"
    /\ db = [u \in UserIds |-> IF u = U1 THEN Some(ProRow) ELSE None]
    /\ configured = {}
    /\ InitWorkers


(***************************************************************************)
(* The environment: the clock, the Redis connections, the store.           *)
(***************************************************************************)
Tick ==
    /\ now + TickStep <= MaxTime
    /\ now' = now + TickStep
    /\ UNCHANGED <<awaited, probe, request, upgraded, retried, partition,
                   auditCalls,
                   leases, redisStatus, db, configured, pc, event, shouldSend,
                   claimedAt, userContext, sent, lastAttempt, audit, outcome,
                   dispatched>>

\* the client of worker w reaches the server
RedisReady(w) ==
    /\ redisStatus[w] = "connecting"
    /\ redisStatus' = [redisStatus EXCEPT ![w] = "ready"]
    /\ UNCHANGED <<awaited, probe, request, upgraded, retried, partition,
                   auditCalls,
                   now, leases, db, configured, pc, event, shouldSend,
                   claimedAt, userContext, sent, lastAttempt, audit, outcome,
                   dispatched>>

\* the client of worker w loses the server and starts reconnecting
RedisLost(w) ==
    /\ redisStatus[w] = "ready"
    /\ redisStatus' = [redisStatus EXCEPT ![w] = "connecting"]
    /\ UNCHANGED <<awaited, probe, request, upgraded, retried, partition,
                   auditCalls,
                   now, leases, db, configured, pc, event, shouldSend,
                   claimedAt, userContext, sent, lastAttempt, audit, outcome,
                   dispatched>>

\* the billing service upgrades a FREE user to PRO
UpgradeToPro(u) ==
    /\ IsSome(db[u])
    /\ IsSome(Get(db[u]).subscription)
    /\ Get(Get(db[u]).subscription).plan = "FREE"
    /\ db' = [db EXCEPT ![u] =
                 Some([Get(db[u]) EXCEPT !.subscription =
                          Some([Get(Get(db[u]).subscription) EXCEPT !.plan = "PRO"])])]
    /\ UNCHANGED <<awaited, probe, request, retried, partition,
                   auditCalls,
                   now, leases, redisStatus, configured, pc, event, shouldSend,
                   claimedAt, userContext, sent, lastAttempt, audit, outcome,
                   dispatched>>

(***************************************************************************)
(* eachMessage, one action per awaited step.                               *)
(***************************************************************************)
\* the handler invoked for the next message while the worker is still busy
ReceiveWhileBusy(w, m) ==
    /\ pc' = [pc EXCEPT ![w] = IF m.kind = "json" THEN "dedup" ELSE "idle"]
    /\ event' = [event EXCEPT ![w] = m.event]
    /\ shouldSend' = [shouldSend EXCEPT ![w] = NotChecked]
    /\ userContext' = [userContext EXCEPT ![w] = None]
    /\ sent' = [sent EXCEPT ![w] = {}]
    /\ lastAttempt' = [lastAttempt EXCEPT ![w] = "none"]
    /\ audit' = [audit EXCEPT ![w] = None]
    /\ outcome' = [outcome EXCEPT ![w] =
          IF m.kind = "json" THEN "none"
          ELSE IF m.kind = "empty" THEN "ignored" ELSE "threw"]
    /\ claimedAt' = [claimedAt EXCEPT ![w] = 0]
    /\ auditCalls' = [auditCalls EXCEPT ![w] = 0]
    /\ UNCHANGED <<awaited, probe, request, upgraded, retried,
                   now, leases, redisStatus, db, configured, dispatched>>

\* the handler going on to the lookup without the duplicate check
ReceiveSkipsCheck(w, m) ==
    /\ pc[w] = "idle"
    /\ pc' = [pc EXCEPT ![w] = IF m.kind = "json" THEN "resolve" ELSE "idle"]
    /\ event' = [event EXCEPT ![w] = m.event]
    /\ shouldSend' = [shouldSend EXCEPT ![w] = NotChecked]
    /\ userContext' = [userContext EXCEPT ![w] = None]
    /\ sent' = [sent EXCEPT ![w] = {}]
    /\ lastAttempt' = [lastAttempt EXCEPT ![w] = "none"]
    /\ audit' = [audit EXCEPT ![w] = None]
    /\ outcome' = [outcome EXCEPT ![w] =
          IF m.kind = "json" THEN "none"
          ELSE IF m.kind = "empty" THEN "ignored" ELSE "threw"]
    /\ claimedAt' = [claimedAt EXCEPT ![w] = 0]
    /\ auditCalls' = [auditCalls EXCEPT ![w] = 0]
    /\ UNCHANGED <<awaited, probe, request, upgraded, retried,
                   now, leases, redisStatus, db, configured, dispatched>>

\* lines 77-84: a message arrives at an idle worker.  A message without a
\* value is ignored; JSON.parse of a malformed value throws out of the handler
Receive(w, m) ==
    /\ pc[w] = "idle"
    /\ pc' = [pc EXCEPT ![w] = IF m.kind = "json" THEN "dedup" ELSE "idle"]
    /\ event' = [event EXCEPT ![w] = m.event]
    /\ shouldSend' = [shouldSend EXCEPT ![w] = NotChecked]
    /\ userContext' = [userContext EXCEPT ![w] = None]
    /\ sent' = [sent EXCEPT ![w] = {}]
    /\ lastAttempt' = [lastAttempt EXCEPT ![w] = "none"]
    /\ audit' = [audit EXCEPT ![w] = None]
    /\ outcome' = [outcome EXCEPT ![w] =
          IF m.kind = "json" THEN "none"
          ELSE IF m.kind = "empty" THEN "ignored" ELSE "threw"]
    /\ claimedAt' = [claimedAt EXCEPT ![w] = 0]
    /\ auditCalls' = [auditCalls EXCEPT ![w] = 0]
    /\ UNCHANGED <<awaited, probe, request, upgraded, retried,
                   now, leases, redisStatus, db, configured, dispatched>>

\* the duplicate check without the  if (!shouldSend) return
DedupCheckNoReturn(w) ==
    /\ pc[w] = "dedup"
    /\ \E o \in SetOutcomes(redisStatus[w]) :
          LET r == shouldSendAlert(leases, redisStatus[w], o,
                                   UserIdOf(event[w]), TxIdOf(event[w]), now)
          IN  /\ leases' = r.store
              /\ shouldSend' = [shouldSend EXCEPT ![w] =
                    [value |-> r.value, viaCache |-> r.viaCache, done |-> TRUE]]
              /\ claimedAt' = [claimedAt EXCEPT ![w] =
                    IF r.viaCache /\ r.value THEN now ELSE 0]
    /\ pc' = [pc EXCEPT ![w] = "resolve"]
    /\ UNCHANGED <<awaited, probe, request, upgraded, retried, partition,
                   auditCalls,
                   now, redisStatus, db, configured, event, userContext, sent,
                   lastAttempt, audit, outcome, dispatched>>

\* lines 86-90: the duplicate check; a duplicate ends the handler
DedupCheck(w) ==
    /\ pc[w] = "dedup"
    /\ \E o \in SetOutcomes(redisStatus[w]) :
          LET r == shouldSendAlert(leases, redisStatus[w], o,
                                   UserIdOf(event[w]), TxIdOf(event[w]), now)
          IN  /\ leases' = r.store
              /\ shouldSend' = [shouldSend EXCEPT ![w] =
                    [value |-> r.value, viaCache |-> r.viaCache, done |-> TRUE]]
              /\ pc' = [pc EXCEPT ![w] = IF r.value THEN "resolve" ELSE "idle"]
              /\ outcome' = [outcome EXCEPT ![w] =
                    IF r.value THEN "none" ELSE "duplicate"]
              /\ claimedAt' = [claimedAt EXCEPT ![w] =
                    IF r.viaCache /\ r.value THEN now ELSE 0]
    /\ UNCHANGED <<awaited, probe, request, upgraded, retried, partition,
                   auditCalls,
                   now, redisStatus, db, configured, event, userContext, sent,
                   lastAttempt, audit, dispatched>>

\* the store as a cache filled before any plan was raised would hold it
CachedStore ==
    [u \in UserIds |->
        IF u \in upgraded
        THEN Some([Get(db[u]) EXCEPT !.subscription =
                      Some([Get(Get(db[u]).subscription) EXCEPT !.plan = "FREE"])])
        ELSE db[u]]

\* the entitlement lookup giving the lease back when it finds no user
ResolveReleasesLease(w) ==
    /\ pc[w] = "resolve"
    /\ \E dbError \in BOOLEAN :
          LET c == getUserContext(db, UserIdOf(event[w]), dbError)
          IN  /\ userContext' = [userContext EXCEPT ![w] = c]
              /\ pc' = [pc EXCEPT ![w] = IF IsSome(c) THEN "email" ELSE "idle"]
              /\ outcome' = [outcome EXCEPT ![w] =
                    IF IsSome(c) THEN "none" ELSE "unknown_user"]
              /\ claimedAt' = [claimedAt EXCEPT ![w] = IF IsSome(c) THEN @ ELSE 0]
              /\ leases' =
                    IF IsSome(c) THEN leases
                    ELSE [leases EXCEPT
                            ![LeaseKey(UserIdOf(event[w]), TxIdOf(event[w]))] = 0]
    /\ UNCHANGED <<awaited, probe, request, upgraded, retried, partition,
                   auditCalls,
                   now, redisStatus, db, configured, event, shouldSend,
                   sent, lastAttempt, audit, dispatched>>

\* the entitlement lookup answered from a local cache
ResolveCached(w) ==
    /\ pc[w] = "resolve"
    /\ \E dbError \in BOOLEAN :
          LET c == getUserContext(CachedStore, UserIdOf(event[w]), dbError)
          IN  /\ userContext' = [userContext EXCEPT ![w] = c]
              /\ pc' = [pc EXCEPT ![w] = IF IsSome(c) THEN "email" ELSE "idle"]
              /\ outcome' = [outcome EXCEPT ![w] =
                    IF IsSome(c) THEN "none" ELSE "unknown_user"]
              /\ claimedAt' = [claimedAt EXCEPT ![w] = IF IsSome(c) THEN @ ELSE 0]
    /\ UNCHANGED <<awaited, probe, request, upgraded, retried, partition,
                   auditCalls,
                   now, leases, redisStatus, db, configured, event, shouldSend,
                   sent, lastAttempt, audit, dispatched>>

\* lines 93-99: the entitlement lookup; no user ends the handler
Resolve(w) ==
    /\ pc[w] = "resolve"
    /\ \E dbError \in BOOLEAN :
          LET c == getUserContext(db, UserIdOf(event[w]), dbError)
          IN  /\ userContext' = [userContext EXCEPT ![w] = c]
              /\ pc' = [pc EXCEPT ![w] = IF IsSome(c) THEN "email" ELSE "idle"]
              /\ outcome' = [outcome EXCEPT ![w] =
                    IF IsSome(c) THEN "none" ELSE "unknown_user"]
              /\ claimedAt' = [claimedAt EXCEPT ![w] = IF IsSome(c) THEN @ ELSE 0]
    /\ UNCHANGED <<awaited, probe, request, upgraded, retried, partition,
                   auditCalls,
                   now, leases, redisStatus, db, configured, event, shouldSend,
                   sent, lastAttempt, audit, dispatched>>


\* lines 105-163: the address a channel is sent to for this event, None when
\* the handler does not call the adapter
EmailTo(context, ev, severity) ==
    IF canSendNotification(context, "EMAIL", severity)
    THEN OrElse(context.email, ev.email) ELSE None
\* the SMS block without its permission check
SmsToUnchecked(context, ev, severity) == OrElse(context.phone, ev.phone)
SmsTo(context, ev, severity) ==
    IF canSendNotification(context, "SMS", severity)
    THEN OrElse(context.phone, ev.phone) ELSE None
\* the webhook block limited to PRO users
WebhookToProOnly(context, ev, severity) ==
    IF context.plan = "PRO" THEN ev.webhookUrl ELSE None
WebhookTo(context, ev, severity) == ev.webhookUrl
CallTo(context, ev, severity) ==
    IF canSendNotification(context, "VOICE", severity)
    THEN OrElse(context.phone, ev.phone) ELSE None

\* retry of a channel block that makes no call
NoCall == [threw |-> FALSE, value |-> "undefined", calls |-> 0, waits |-> <<>>]

\* one channel block of the handler: when there is a target the adapter is
\* called through retry, which calls it again while it rejects; the block
\* records what the provider did at the last call and how many calls were
\* made.  An error thrown by retry lands in the catch of lines 182-187, which
\* ends the handler.  The delays of retry are far below TickStep and leave
\* the clock alone.
ChannelStep(w, here, next, channel, to) ==
    /\ pc[w] = here
    /\ \E run \in (IF IsSome(to) THEN ProviderRuns(channel, configured)
                    ELSE {<<>>}) :
          LET r == IF IsSome(to)
                   THEN retry([i \in DOMAIN run |-> AdapterReturn(run[i])],
                              MAX_RETRIES, BACKOFF_BASE_MS)
                   ELSE NoCall
              o == IF IsSome(to) THEN run[r.calls] ELSE "skipped"
          IN  /\ lastAttempt' = [lastAttempt EXCEPT ![w] = o]
              /\ sent' = [sent EXCEPT ![w] =
                    IF IsSome(to)
                    THEN @ \cup {[channel |-> channel, to |-> Get(to),
                                  result |-> o, calls |-> r.calls]}
                    ELSE @]
              /\ pc' = [pc EXCEPT ![w] = IF r.threw THEN "idle" ELSE next]
              /\ outcome' = [outcome EXCEPT ![w] =
                    IF r.threw THEN "aborted" ELSE @]
              /\ claimedAt' = [claimedAt EXCEPT ![w] = IF r.threw THEN 0 ELSE @]
    /\ dispatched' =
          IF IsSome(to) /\ sent[w] = {} /\ shouldSend[w].viaCache
          THEN [dispatched EXCEPT
                  ![LeaseKey(UserIdOf(event[w]), TxIdOf(event[w]))] =
                      Append(@, claimedAt[w])]
          ELSE dispatched
    /\ UNCHANGED <<awaited, probe, request, upgraded, retried, partition,
                   auditCalls,
                   now, leases, redisStatus, db, configured, event, shouldSend,
                   userContext, audit>>

Email(w) ==
    /\ pc[w] = "email"
    /\ ChannelStep(w, "email", "sms", "EMAIL",
                   EmailTo(Get(userContext[w]), event[w], SeverityOf(event[w])))

Sms(w) ==
    /\ pc[w] = "sms"
    /\ ChannelStep(w, "sms", "webhook", "SMS",
                   SmsTo(Get(userContext[w]), event[w], SeverityOf(event[w])))

\* the webhook block followed by the email block once more
WebhookThenEmail(w) ==
    /\ pc[w] = "webhook"
    /\ ChannelStep(w, "webhook", "email", "WEBHOOK",
                   WebhookTo(Get(userContext[w]), event[w], SeverityOf(event[w])))

Webhook(w) ==
    /\ pc[w] = "webhook"
    /\ ChannelStep(w, "webhook", "call", "WEBHOOK",
                   WebhookTo(Get(userContext[w]), event[w], SeverityOf(event[w])))

\* the handler returning after the CALL block
CallEndsHandler(w) ==
    /\ pc[w] = "call"
    /\ ChannelStep(w, "call", "idle", "VOICE",
                   CallTo(Get(userContext[w]), event[w], SeverityOf(event[w])))

Call(w) ==
    /\ pc[w] = "call"
    /\ ChannelStep(w, "call", "audit", "VOICE",
                   CallTo(Get(userContext[w]), event[w], SeverityOf(event[w])))

\* the alert event with the email entry set whatever the settings say
AlertEventEmailAlways(ev, context) ==
    [userId |-> UserIdOf(ev),
     severity |-> ev.severity,
     channels |->
        [email |-> TRUE,
         sms |-> canSendNotification(context, "SMS", SeverityOf(ev)),
         webhook |-> IsSome(ev.webhookUrl),
         call |-> canSendNotification(context, "VOICE", SeverityOf(ev))],
     sourceEvent |-> ev]

\* the alert event with the webhook entry set whatever the event carries
AlertEventWebhookAlways(ev, context) ==
    [userId |-> UserIdOf(ev),
     severity |-> ev.severity,
     channels |->
        [email |-> canSendNotification(context, "EMAIL", SeverityOf(ev)),
         sms |-> canSendNotification(context, "SMS", SeverityOf(ev)),
         webhook |-> TRUE,
         call |-> canSendNotification(context, "VOICE", SeverityOf(ev))],
     sourceEvent |-> ev]

\* lines 166-179: the alert event handed to the producer
AlertEvent(ev, context) ==
    [userId |-> UserIdOf(ev),
     severity |-> ev.severity,
     channels |->
        [email |-> canSendNotification(context, "EMAIL", SeverityOf(ev)),
         sms |-> canSendNotification(context, "SMS", SeverityOf(ev)),
         webhook |-> IsSome(ev.webhookUrl),
         call |-> canSendNotification(context, "VOICE", SeverityOf(ev))],
     sourceEvent |-> ev]

\* the alert event produced before the CALL block has run
ProduceAlertEventBeforeCall(w) ==
    /\ pc[w] = "call"
    /\ auditCalls[w] = 0
    /\ audit' = [audit EXCEPT ![w] =
          Some(AlertEvent(event[w], Get(userContext[w])))]
    /\ auditCalls' = [auditCalls EXCEPT ![w] = @ + 1]
    /\ UNCHANGED <<awaited, probe, request, upgraded, retried, partition,
                   now, leases, redisStatus, db, configured, pc, event, shouldSend,
                   claimedAt, userContext, sent, lastAttempt, outcome, dispatched>>

\* produceAlertEvent called outside the try block: a producer error leaves
\* the handler
ProduceAlertEventUncaught(w) ==
    /\ pc[w] = "audit"
    /\ pc' = [pc EXCEPT ![w] = "idle"]
    /\ \E ok \in BOOLEAN :
          /\ audit' = [audit EXCEPT ![w] =
                IF ok THEN Some(AlertEvent(event[w], Get(userContext[w])))
                ELSE None]
          /\ outcome' = [outcome EXCEPT ![w] = IF ok THEN "processed" ELSE "threw"]
    /\ auditCalls' = [auditCalls EXCEPT ![w] = @ + 1]
    /\ claimedAt' = [claimedAt EXCEPT ![w] = 0]
    /\ UNCHANGED <<awaited, probe, request, upgraded, retried, partition,
                   now, leases, redisStatus, db, configured, event, shouldSend,
                   userContext, sent, lastAttempt, dispatched>>

\* lines 165-187: produceAlertEvent; a producer error is caught and logged
ProduceAlertEvent(w) ==
    /\ pc[w] = "audit"
    /\ pc' = [pc EXCEPT ![w] = "idle"]
    /\ \E ok \in BOOLEAN :
          /\ audit' = [audit EXCEPT ![w] =
                IF ok THEN Some(AlertEvent(event[w], Get(userContext[w])))
                ELSE None]
          /\ outcome' = [outcome EXCEPT ![w] = IF ok THEN "processed" ELSE "failed"]
    /\ auditCalls' = [auditCalls EXCEPT ![w] = @ + 1]
    /\ claimedAt' = [claimedAt EXCEPT ![w] = 0]
    /\ UNCHANGED <<awaited, probe, request, upgraded, retried, partition,
                   now, leases, redisStatus, db, configured, event, shouldSend,
                   userContext, sent, lastAttempt, dispatched>>

\* line 76: kafkajs calls the handler with a message of partition p
EachMessage(w, p, m) ==
    /\ Receive(w, m)
    /\ partition' = [partition EXCEPT ![w] = p]

Handle(w) ==
    \/ DedupCheck(w)
    \/ Resolve(w)
    \/ Email(w)
    \/ Sms(w)
    \/ Webhook(w)
    \/ Call(w)
    \/ ProduceAlertEvent(w)

(***************************************************************************)
(* Spec: two workers consuming events of one user; the clock and the       *)
(* Redis connections move.                                                 *)
(***************************************************************************)
Next ==
    \/ Tick
    \/ \E w \in Workers : RedisReady(w)
    \/ \E w \in Workers : RedisLost(w)
    \/ \E w \in Workers : \E m \in KeyMessages : EachMessage(w, HomePartition[w], m)
    \/ \E w \in Workers : Handle(w)

Spec == Init /\ [][Next]_vars


(***************************************************************************)
(* SpecDispatch: one worker consuming events with every optional field,    *)
(* for a user whose row is any of DispatchRows and may be upgraded while   *)
(* events flow; the providers are configured.                              *)
(***************************************************************************)
InitDispatch ==
    /\ now = 0
    /\ leases = [k \in LeaseKeys |-> 0]
    /\ redisStatus \in [Workers -> {"null", "connecting"}]
    /\ redisStatus["w2"] = "connecting"
    /\ db \in [UserIds -> Option(DispatchRows)]
    /\ IsSome(db[U1]) /\ IsNone(db[U2]) /\ IsNone(db[UNKNOWN_USER])
    /\ configured = Channels
    /\ InitWorkers

NextDispatch ==
    \/ RedisReady("w1")
    \/ (UpgradeToPro(U1) /\ UNCHANGED upgraded)
    \/ \E m \in DispatchMessages : EachMessage("w1", HomePartition["w1"], m)
    \/ Handle("w1")

SpecDispatch == InitDispatch /\ [][NextDispatch]_vars


(***************************************************************************)
(* SpecFreshness: one worker consuming events of a FREE user whose plan is *)
(* raised to PRO at any moment, as the subscription test script raises it. *)
(***************************************************************************)
\* events of two incidents of the known user, so that the second is not a
\* duplicate of the first
FreshEvents ==
    Events({Some(U1)}, {Some(TX1), Some(TX2)}, {Some("MEDIUM"), Some("CRITICAL")},
           {None}, {None, Some("+ev")}, {None})
FreshMessages == JsonMessages(FreshEvents)

\* the upgrade, remembered when it falls between two events: no handler is
\* running and the last event of the user was handled under FREE
PlanChange(u) ==
    /\ UpgradeToPro(u)
    /\ upgraded' =
          IF /\ \A w \in Workers : pc[w] = "idle"
             /\ \E w \in Workers :
                   /\ IsSome(audit[w]) /\ Get(audit[w]).userId = u
                   /\ IsSome(userContext[w])
                   /\ Get(userContext[w]).plan = "FREE"
          THEN upgraded \cup {u}
          ELSE upgraded

InitFreshness ==
    /\ now = 0
    /\ leases = [k \in LeaseKeys |-> 0]
    /\ redisStatus = [w \in Workers |-> "connecting"]
    /\ db \in [UserIds -> Option(DispatchRows)]
    /\ IsSome(db[U1]) /\ IsNone(db[U2]) /\ IsNone(db[UNKNOWN_USER])
    /\ Get(Get(db[U1]).subscription).plan = "FREE"
    /\ configured = Channels
    /\ InitWorkers

NextFreshness ==
    \/ RedisReady("w1")
    \/ PlanChange(U1)
    \/ \E m \in FreshMessages : EachMessage("w1", HomePartition["w1"], m)
    \/ Handle("w1")

SpecFreshness == InitFreshness /\ [][NextFreshness]_vars


(***************************************************************************)
(* SpecCanSend: the permission function asked directly, as the             *)
(* subscription test script does: a row is written, read back with         *)
(* getUserContext and canSendNotification is evaluated on the context.     *)
(***************************************************************************)
ProbeChannels == {"EMAIL", "SMS", "VOICE"}

CheckPermission(row, channel, severity) ==
    /\ probe = None
    /\ db' = [db EXCEPT ![U1] = Some(row)]
    /\ LET c == getUserContext(db', U1, FALSE)
       IN  probe' = Some([context |-> Get(c), channel |-> channel,
                          severity |-> severity,
                          allowed |-> canSendNotification(Get(c), channel, severity)])
    /\ UNCHANGED <<awaited, retried, request, upgraded, partition,
                   auditCalls,
                   now, leases, redisStatus, configured, pc, event, shouldSend,
                   claimedAt, userContext, sent, lastAttempt, audit, outcome,
                   dispatched>>

NextCanSend ==
    \E row \in UserRows, channel \in ProbeChannels, severity \in Severities :
        CheckPermission(row, channel, severity)

SpecCanSend == Init /\ [][NextCanSend]_vars


(***************************************************************************)
(* SpecRetry: retry called once, on an operation given by what each of its *)
(* invocations does, with any number of retries up to MaxRetriesArg and    *)
(* two initial delays, the defaults among them.                            *)
(***************************************************************************)
MaxRetriesArg == 4
RetryOuts == [1..(MaxRetriesArg + 1) -> {"v1", "v2"} \cup Errors]
BackoffArgs == {1000, BACKOFF_BASE_MS}

CallRetry(outs, retries, backoffMs) ==
    /\ retried = None
    /\ retried' = Some([outs |-> outs, retries |-> retries,
                        backoffMs |-> backoffMs,
                        result |-> retry(outs, retries, backoffMs)])
    /\ UNCHANGED <<awaited, probe, request, upgraded, partition, auditCalls,
                   now, leases, redisStatus, db, configured, pc, event, shouldSend,
                   claimedAt, userContext, sent, lastAttempt, audit, outcome,
                   dispatched>>

NextRetry ==
    /\ retried = None
    /\ \E outs \in RetryOuts, retries \in 0..MaxRetriesArg,
          backoffMs \in BackoffArgs :
             CallRetry(outs, retries, backoffMs)

SpecRetry == Init /\ [][NextRetry]_vars


(***************************************************************************)
(* SpecWebhook: sendWebhookNotification called once, as the handler calls  *)
(* it for an event with a webhook target, with and without a signing       *)
(* secret, at a few clock values.                                          *)
(***************************************************************************)
MaxClockMs == 1203
WebhookClocks == {0, 9, 1000, MaxClockMs}
WebhookSecrets == {None, Some(<<>>), Some(<<"s1">>), Some(<<"s2">>)}
WebhookEvents == {ev \in DispatchEvents : IsSome(ev.webhookUrl)}

SendWebhook(ev, secret, ms) ==
    /\ request = None
    /\ request' = Some([secret |-> secret, ms |-> ms,
                        data |-> [userId |-> UserIdOf(ev), event |-> ev],
                        sent |-> WebhookRequest(Get(ev.webhookUrl),
                                    [userId |-> UserIdOf(ev), event |-> ev],
                                    secret, ms)])
    /\ UNCHANGED <<awaited, probe, retried, upgraded, partition, auditCalls,
                   now, leases, redisStatus, db, configured, pc, event, shouldSend,
                   claimedAt, userContext, sent, lastAttempt, audit, outcome,
                   dispatched>>

NextWebhook ==
    /\ request = None
    /\ \E ev \in WebhookEvents, secret \in WebhookSecrets, ms \in WebhookClocks :
          SendWebhook(ev, secret, ms)

SpecWebhook == Init /\ [][NextWebhook]_vars


(***************************************************************************)
(* SpecTimeouts: one adapter called once through retry, as a channel block *)
(* calls it, against a provider of any latency.                            *)
(***************************************************************************)
AwaitAdapter(channel, creds, latency, answer) ==
    /\ awaited = None
    /\ LET a == AdapterCall(channel, creds, latency, answer)
           r == IF IsSome(a.returned)
                THEN retry([i \in 1..(MAX_RETRIES + 1) |-> Get(a.returned)],
                           MAX_RETRIES, BACKOFF_BASE_MS)
                ELSE [NoCall EXCEPT !.calls = 1]
       IN  awaited' = Some([channel |-> channel, latency |-> latency,
                            timeout |-> CallTimeout(channel),
                            settledAfter |-> a.settledAfter,
                            outcome |-> a.outcome, returned |-> a.returned,
                            calls |-> r.calls])
    /\ UNCHANGED <<probe, request, retried, upgraded, partition, auditCalls,
                   now, leases, redisStatus, db, configured, pc, event, shouldSend,
                   claimedAt, userContext, sent, lastAttempt, audit, outcome,
                   dispatched>>

NextTimeouts ==
    /\ awaited = None
    /\ \E channel \in Channels, creds \in {{}, Channels}, latency \in Latencies,
          answer \in {"delivered", "failed"} :
          AwaitAdapter(channel, creds, latency, answer)

SpecTimeouts == Init /\ [][NextTimeouts]_vars


(***************************************************************************)
(* SpecKeys: two workers consuming events of one user that carry their     *)
(* incident identifier under field names the producers of the repository   *)
(* write: data.tx_id, id, and the txId of the test producers.              *)
(***************************************************************************)
\* an event of the known user with its identifier tx under field f only
ShapeEvent(f, tx) ==
    [userId |-> Some(U1), metaUserId |-> None,
     dataTxId |-> IF f = "data.tx_id" THEN Some(tx) ELSE None,
     tx_id |-> IF f = "tx_id" THEN Some(tx) ELSE None,
     id |-> IF f = "id" THEN Some(tx) ELSE None,
     camelTxId |-> IF f = "txId" THEN Some(tx) ELSE None,
     severity |-> Some("CRITICAL"), email |-> None, phone |-> None,
     webhookUrl |-> None]
ShapeEvents ==
    {ShapeEvent("data.tx_id", TX1), ShapeEvent("id", TX2),
     ShapeEvent("txId", TX1), ShapeEvent("txId", TX2)}
ShapeMessages == JsonMessages(ShapeEvents)

NextKeys ==
    \/ \E w \in Workers : RedisReady(w)
    \/ \E w \in Workers : \E m \in ShapeMessages :
          EachMessage(w, HomePartition[w], m)
    \/ \E w \in Workers : Handle(w)

SpecKeys == Init /\ [][NextKeys]_vars


(***************************************************************************)
(* SpecPartitions: the two service instances as members of the consumer    *)
(* group, each receiving the messages of every partition assigned to it.   *)
(***************************************************************************)
NextPartitions ==
    \/ \E w \in Workers : RedisReady(w)
    \/ \E w \in Workers : \E p \in Assigned[w] : \E m \in KeyMessages :
          EachMessage(w, p, m)
    \/ \E w \in Workers : Handle(w)

SpecPartitions == Init /\ [][NextPartitions]_vars


(***************************************************************************)
(* Properties.                                                             *)
(***************************************************************************)
KeyOf(w) == LeaseKey(UserIdOf(event[w]), TxIdOf(event[w]))
Apart(t1, t2) == t1 - t2 >= DEDUP_TTL_SECONDS \/ t2 - t1 >= DEDUP_TTL_SECONDS
\* the cache let the event of worker w through
Passed(w) == shouldSend[w].done /\ shouldSend[w].viaCache /\ shouldSend[w].value
\* the event of worker w went ahead without an answer of the cache
FailedOpen(w) == shouldSend[w].done /\ ~shouldSend[w].viaCache /\ shouldSend[w].value
\* the cache reported the event of worker w as a duplicate
Duplicate(w) == shouldSend[w].done /\ ~shouldSend[w].value

\* C1: among the events of one (userId, incidentId) pair that the cache
\* answered for, those that performed channel sends were checked at least one
\* lease TTL apart: within a TTL at most one of them sends.
C1_AtMostOncePerLease ==
    \A k \in LeaseKeys :
        \A i, j \in DOMAIN dispatched[k] :
            i # j => Apart(dispatched[k][i], dispatched[k][j])

\* an event was sent for, and a second event of the same pair, checked while
\* the lease was live, is discarded as a duplicate
C1_Witness ==
    \E w \in Workers :
        /\ Duplicate(w) /\ shouldSend[w].viaCache
        /\ Len(dispatched[KeyOf(w)]) = 1
        /\ Live(leases, KeyOf(w), now)

\* C2: of the events two workers handle at the same time for one key, both
\* answered by the cache, at most one holds a go unless the answers are a TTL
\* apart; the worker that holds a go holds the lease written by its own call,
\* and a worker told "duplicate" was told so because a lease was written.
C2_OneWinner ==
    \A w1 \in Workers :
        /\ \A w2 \in Workers \ {w1} :
              (/\ KeyOf(w1) = KeyOf(w2)
               /\ Passed(w1) /\ pc[w1] # "idle"
               /\ Passed(w2) /\ pc[w2] # "idle")
              => Apart(claimedAt[w1], claimedAt[w2])
        /\ (Passed(w1) /\ pc[w1] # "idle")
              => leases[KeyOf(w1)] >= claimedAt[w1] + DEDUP_TTL_SECONDS
        /\ (Duplicate(w1) /\ shouldSend[w1].viaCache) => leases[KeyOf(w1)] > 0

\* both workers asked the cache about the same key; one is going on, the other
\* was told "duplicate"
C2_Witness ==
    \E w1 \in Workers : \E w2 \in Workers \ {w1} :
        /\ KeyOf(w1) = KeyOf(w2)
        /\ Passed(w1) /\ pc[w1] = "resolve" /\ claimedAt[w1] = now
        /\ Duplicate(w2) /\ shouldSend[w2].viaCache

\* C3: a check the cache answers returns true exactly when the key
\* alert:{u}:{t} holds no live lease at that moment; the key then holds a lease
\* of one TTL from now when it returned true, its old lease when it returned
\* false, and no other key changes.
C3_ClaimSemantics ==
    [][\A w \in Workers :
          (pc[w] = "dedup" /\ shouldSend'[w].done /\ shouldSend'[w].viaCache)
          => LET k == <<"alert", ":">> \o UserIdOf(event[w]) \o <<":">>
                          \o TxIdOf(event[w])
             IN  /\ shouldSend'[w].value = ~(leases[k] > now)
                 /\ leases'[k] = IF leases[k] > now THEN leases[k]
                                  ELSE now + DEDUP_TTL_SECONDS
                 /\ \A k2 \in LeaseKeys \ {k} : leases'[k2] = leases[k2]]_vars

\* a repeated check of one incident was refused while a check of another
\* incident of the same user went through
C3_Witness ==
    \E w1 \in Workers : \E w2 \in Workers \ {w1} :
        /\ UserIdOf(event[w1]) = UserIdOf(event[w2])
        /\ TxIdOf(event[w1]) # TxIdOf(event[w2])
        /\ Duplicate(w1) /\ shouldSend[w1].viaCache
        /\ Live(leases, KeyOf(w1), now)
        /\ Passed(w2) /\ pc[w2] = "resolve" /\ claimedAt[w2] = now

\* C4: a check made with the Redis client absent or not ready, or whose SET
\* raises, returns true and writes no lease, and the handler goes on to the
\* entitlement lookup.
C4_FailOpen ==
    [][\A w \in Workers :
          (/\ pc[w] = "dedup" /\ shouldSend'[w].done
           /\ (redisStatus[w] # "ready" \/ ~shouldSend'[w].viaCache))
          => /\ shouldSend'[w].value
             /\ pc'[w] = "resolve"
             /\ leases' = leases]_vars

\* two identical events, both checked without the cache, both sent
C4_Witness ==
    \E w1 \in Workers : \E w2 \in Workers \ {w1} :
        /\ event[w1] = event[w2]
        /\ FailedOpen(w1) /\ sent[w1] # {} /\ redisStatus[w1] = "null"
        /\ FailedOpen(w2) /\ sent[w2] # {} /\ redisStatus[w2] = "connecting"


\* C5: no adapter is called for an event before the duplicate check of that
\* event has returned: while the check is pending the event has no send, and
\* every event with a send has a completed check that returned true.
C5_ClaimBeforeSend ==
    \A w \in Workers :
        /\ ~shouldSend[w].done => (sent[w] = {} /\ lastAttempt[w] = "none")
        /\ sent[w] # {} => (shouldSend[w].done /\ shouldSend[w].value)
        /\ pc[w] = "dedup" => ~shouldSend[w].done

\* the first adapter call of an event, made after its check returned true
C5_Witness ==
    \E w \in Workers :
        /\ pc[w] = "sms" /\ Cardinality(sent[w]) = 1
        /\ shouldSend[w].done /\ shouldSend[w].value

\* C6: an event the duplicate check refuses ends there: no entitlement lookup,
\* no adapter call, no alert event, and the worker is idle for the next message.
C6_DuplicateDiscarded ==
    \A w \in Workers :
        Duplicate(w) =>
            /\ pc[w] = "idle" /\ outcome[w] = "duplicate"
            /\ IsNone(userContext[w])
            /\ sent[w] = {} /\ lastAttempt[w] = "none"
            /\ IsNone(audit[w])

\* a duplicate of a known user's event that names a webhook target
C6_Witness ==
    \E w \in Workers :
        /\ Duplicate(w) /\ outcome[w] = "duplicate"
        /\ IsSome(db[UserIdOf(event[w])])
        /\ IsSome(event[w].webhookUrl)

\* C7: an event whose userId has no row in the store gets no adapter call,
\* webhook included, and no alert event.
C7_UnknownUser ==
    \A w \in Workers :
        IsNone(db[UserIdOf(event[w])]) =>
            /\ sent[w] = {} /\ lastAttempt[w] = "none"
            /\ IsNone(audit[w])
            /\ pc[w] \in {"idle", "dedup", "resolve"}

\* the lookup of an unknown user's event, which carries a webhook target and
\* contacts, found nothing and the handler ended
C7_Witness ==
    \E w \in Workers :
        /\ outcome[w] = "unknown_user" /\ pc[w] = "idle"
        /\ IsNone(db[UserIdOf(event[w])])
        /\ IsSome(event[w].webhookUrl) /\ IsSome(event[w].email)

\* C8: every adapter call made for an event is on a channel that is permitted
\* for the context resolved for that event and the severity of that event
\* (for the webhook: the event carries a target URL).
C8_OnlyPermittedChannels ==
    \A w \in Workers : \A s \in sent[w] :
        /\ IsSome(userContext[w])
        /\ s.channel \in {"EMAIL", "SMS", "VOICE"} =>
              canSendNotification(Get(userContext[w]), s.channel,
                                  SeverityOf(event[w]))
        /\ s.channel = "WEBHOOK" => IsSome(event[w].webhookUrl)

\* an event of a FREE user with the phone enabled reached the alert step with
\* an email sent and neither SMS nor call
C8_Witness ==
    \E w \in Workers :
        /\ pc[w] = "audit"
        /\ Get(userContext[w]).plan = "FREE"
        /\ Get(userContext[w]).settings.phoneEnabled
        /\ IsSome(Get(userContext[w]).phone)
        /\ event[w].severity = Some("CRITICAL")
        /\ {s.channel : s \in sent[w]} = {"EMAIL"}

\* the rule of the specification for the three channels
ReferenceRule(context, channel, severity) ==
    IF channel = "EMAIL" THEN context.settings.emailEnabled
    ELSE IF channel = "SMS" THEN
        context.settings.phoneEnabled
        /\ (context.plan = "PRO" \/ context.features.sms = "true")
    ELSE context.plan = "PRO" /\ severity = "CRITICAL"

ProPhoneEnabled ==
    /\ IsSome(probe)
    /\ Get(probe).context.plan = "PRO"
    /\ Get(probe).context.settings.phoneEnabled

TargetOf(w, channel) ==
    LET context == Get(userContext[w])
        severity == SeverityOf(event[w])
    IN  IF channel = "EMAIL" THEN EmailTo(context, event[w], severity)
        ELSE IF channel = "SMS" THEN SmsTo(context, event[w], severity)
        ELSE IF channel = "WEBHOOK" THEN WebhookTo(context, event[w], severity)
        ELSE CallTo(context, event[w], severity)
\* the channels worker w has called the adapter of, for its event
Attempted(w) == {s.channel : s \in sent[w]}
\* the channel blocks of worker w's handler are behind it
PastChannels(w) == IsSome(userContext[w]) /\ pc[w] \in {"audit", "idle"}

\* C12: when the attempt on one permitted channel of an event has failed, the
\* handler is not ended by it and, once the channel blocks are done, every
\* permitted channel of the event that has an address has been attempted.
C12_FailureIsolated ==
    \A w \in Workers :
        (\E s \in sent[w] : s.result = "failed") =>
            /\ outcome[w] # "aborted"
            /\ PastChannels(w) =>
                  \A channel \in Channels :
                      IsSome(TargetOf(w, channel)) => channel \in Attempted(w)

\* the email failed and SMS, webhook and call were attempted after it
C12_Witness ==
    \E w \in Workers :
        /\ pc[w] = "audit"
        /\ \E s \in sent[w] : s.channel = "EMAIL" /\ s.result = "failed"
        /\ Attempted(w) = Channels

\* the handler of worker w has ended for an event that passed the duplicate
\* check and whose user was found
EndedForKnownUser(w) ==
    /\ pc[w] = "idle"
    /\ shouldSend[w].done /\ shouldSend[w].value
    /\ IsSome(userContext[w])

\* C13: an event that passed the duplicate check and resolved to a user gets
\* exactly one call of produceAlertEvent: never more than one, none before its
\* channel blocks are done, exactly one when its handler has ended, whatever
\* the channel attempts did; and until then the handler can always step.
C13_AuditAttemptedOnce ==
    \A w \in Workers :
        /\ auditCalls[w] <= 1
        /\ EndedForKnownUser(w) => auditCalls[w] = 1
        /\ (IsSome(userContext[w]) /\ pc[w] # "idle") =>
              (auditCalls[w] = 0 /\ ENABLED Handle(w))
        /\ IsNone(userContext[w]) => auditCalls[w] = 0

\* the handler ended after one produceAlertEvent call, the webhook having
\* failed and the email having been delivered
C13_Witness ==
    \E w \in Workers :
        /\ EndedForKnownUser(w)
        /\ auditCalls[w] = 1
        /\ \E s \in sent[w] : s.channel = "WEBHOOK" /\ s.result = "failed"
        /\ \E s \in sent[w] : s.channel = "EMAIL" /\ s.result = "delivered"

\* every channel attempt of worker w's event has resolved: each permitted
\* channel with an address was attempted and the attempt has its result
ChannelsResolved(w) ==
    /\ \A channel \in Channels :
          IsSome(TargetOf(w, channel)) => channel \in Attempted(w)
    /\ \A s \in sent[w] : s.result \in {"delivered", "failed", "logged"}

\* C14: produceAlertEvent is called for an event only from the step after the
\* CALL block, when every channel attempt of the event has resolved; and once
\* it has been called no adapter is called for that event any more.
C14_AuditAfterChannels ==
    /\ [](\A w \in Workers :
             auditCalls[w] > 0 => (pc[w] = "idle" /\ ChannelsResolved(w)))
    /\ [][\A w \in Workers :
             /\ auditCalls'[w] > auditCalls[w] =>
                   (pc[w] = "audit" /\ ChannelsResolved(w))
             /\ (auditCalls[w] > 0 /\ auditCalls'[w] > 0) => sent'[w] = sent[w]]_vars

\* the alert event was produced after all four channels were attempted
C14_Witness ==
    \E w \in Workers :
        /\ auditCalls[w] = 1 /\ IsSome(audit[w])
        /\ Attempted(w) = Channels
        /\ pc[w] = "idle"

\* C15: a call of produceAlertEvent ends the handler inside its try/catch,
\* whether the publish succeeded or failed: the error does not leave the
\* handler, the adapter calls already made and the leases stand, and the
\* worker is idle, so that the next message can be received.
C15_AuditFailureContained ==
    /\ [](\A w \in Workers :
             outcome[w] = "failed" =>
                 /\ pc[w] = "idle" /\ auditCalls[w] = 1 /\ IsNone(audit[w])
                 /\ ENABLED (\E m \in DispatchMessages : EachMessage(w, HomePartition[w], m)))
    /\ [][\A w \in Workers :
             auditCalls'[w] > auditCalls[w] =>
                 /\ outcome'[w] \in {"processed", "failed"}
                 /\ pc'[w] = "idle"
                 /\ sent'[w] = sent[w]
                 /\ leases' = leases /\ dispatched' = dispatched]_vars

\* the publish failed after the email was delivered: the handler ended with
\* the failure logged and the send recorded
C15_Witness ==
    \E w \in Workers :
        /\ outcome[w] = "failed" /\ pc[w] = "idle"
        /\ \E s \in sent[w] : s.channel = "EMAIL" /\ s.result = "delivered"

\* retry was called with the default number of retries
DefaultRetries == IsSome(retried) /\ Get(retried).retries = MAX_RETRIES
\* the first n invocations of the operation retry was called on all fail
AllFail(n) == \A i \in 1..n : IsError(Get(retried).outs[i])

\* C16 as stated: with the default of 3, retry invokes the operation at most
\* 3 times in total; if every invocation fails it stops after the 3rd and
\* throws the error of that invocation.
C16_AtMostThreeInvocations ==
    DefaultRetries =>
        /\ Get(retried).result.calls <= 3
        /\ AllFail(3) =>
              /\ Get(retried).result.threw
              /\ Get(retried).result.value = Get(retried).outs[3]

\* C16 amended: retry(fn, retries) invokes fn at most retries + 1 times, the
\* first call and `retries` retries (4 with the default of 3); it throws
\* exactly when the first retries + 1 invocations all fail, it then has made
\* retries + 1 invocations and throws the error of the last one.
C16_AtMostRetriesPlusOne ==
    IsSome(retried) =>
        LET n == Get(retried).retries + 1
            r == Get(retried).result
        IN  /\ r.calls <= n
            /\ r.threw = AllFail(n)
            /\ r.threw => (r.calls = n /\ r.value = Get(retried).outs[n])
            /\ DefaultRetries => n = 4

\* the default retry on an operation that always fails, with two different
\* errors: four invocations, the error of the fourth thrown
C16_Witness ==
    /\ DefaultRetries
    /\ Get(retried).backoffMs = BACKOFF_BASE_MS
    /\ AllFail(4)
    /\ Get(retried).outs[3] = "e1" /\ Get(retried).outs[4] = "e2"
    /\ Get(retried).result.threw
    /\ Get(retried).result.calls = 4
    /\ Get(retried).result.value = "e2"

\* 2 to the power n
RECURSIVE Pow2(_)
Pow2(n) == IF n = 0 THEN 1 ELSE 2 * Pow2(n - 1)
RECURSIVE SumSeq(_)
SumSeq(q) == IF q = <<>> THEN 0 ELSE Head(q) + SumSeq(Tail(q))

\* C17: under retry an operation that fails twice and succeeds at its third
\* invocation returns the value of the third invocation after exactly two
\* failures and two waits; in every run the wait before the k-th retry is the
\* initial delay times 2^(k-1): 2000 ms then 4000 ms with the default, 6000 ms
\* in all.
C17_BackoffDoubles ==
    IsSome(retried) =>
        LET a == Get(retried)
            r == a.result
        IN  /\ \A k \in 1..Len(r.waits) : r.waits[k] = a.backoffMs * Pow2(k - 1)
            /\ Len(r.waits) = r.calls - 1
            /\ (a.retries >= 2 /\ IsError(a.outs[1]) /\ IsError(a.outs[2])
                    /\ ~IsError(a.outs[3])) =>
                  /\ ~r.threw /\ r.value = a.outs[3] /\ r.calls = 3
                  /\ r.waits = <<a.backoffMs, 2 * a.backoffMs>>
                  /\ a.backoffMs = BACKOFF_BASE_MS =>
                        (r.waits = <<2000, 4000>> /\ SumSeq(r.waits) >= 6000)

\* the default retry on an operation failing twice and then returning v2
C17_Witness ==
    /\ DefaultRetries
    /\ Get(retried).backoffMs = BACKOFF_BASE_MS
    /\ Get(retried).outs[1] = "e1" /\ Get(retried).outs[2] = "e2"
    /\ Get(retried).outs[3] = "v2"
    /\ Get(retried).result =
          [threw |-> FALSE, value |-> "v2", calls |-> 3, waits |-> <<2000, 4000>>]

\* C18 as stated: a provider call that fails is retried: a channel whose last
\* attempt failed was given up only after retry had called the adapter as
\* often as its policy allows, MAX_RETRIES + 1 times.
C18_FailuresRetried ==
    \A w \in Workers : \A s \in sent[w] :
        s.result = "failed" => s.calls = MAX_RETRIES + 1

\* the steps of a handler in which channel sends (and retry) are awaited
ChannelPcs == {"email", "sms", "webhook", "call"}

InHandling(p) == \E v \in Workers : pc[v] # "idle" /\ partition[v] = p

\* C20 as stated: while the event of one partition is in a channel block of
\* its handler, where the retry delays are awaited, a message of any other
\* partition that has no message in handling can be handed to the handler of
\* the instance the partition is assigned to.
C20_OtherPartitionsProceed ==
    \A w \in Workers :
        pc[w] \in ChannelPcs =>
            \A p \in Partitions \ {partition[w]} :
                ~InHandling(p) =>
                    \E v \in Workers :
                        /\ p \in Assigned[v]
                        /\ ENABLED (\E m \in KeyMessages : EachMessage(v, p, m))

\* C21 as stated: whatever the message, its handler resolves: no exception
\* leaves eachMessage for the consumer loop.
C21_NoExceptionEscapes ==
    \A w \in Workers : outcome[w] # "threw"

\* worker w has ended the handler of a CRITICAL event without webhook target
\* for a PRO user whose email and phone are enabled
EndToEndCase(w) ==
    /\ EndedForKnownUser(w)
    /\ event[w].severity = Some("CRITICAL")
    /\ IsNone(event[w].webhookUrl)
    /\ Get(userContext[w]).plan = "PRO"
    /\ Get(userContext[w]).settings.emailEnabled
    /\ Get(userContext[w]).settings.phoneEnabled

\* C22: a CRITICAL event without webhook target, for a PRO user with email
\* and phone enabled, that passed the duplicate check gets one call of
\* produceAlertEvent; the record it publishes, one and no more, marks email,
\* sms and call (voice) true and webhook false; no record is there only when
\* the producer rejected the publish.
C22_EndToEndAudit ==
    \A w \in Workers :
        EndToEndCase(w) =>
            /\ auditCalls[w] = 1
            /\ outcome[w] \in {"processed", "failed"}
            /\ outcome[w] = "processed" =>
                  /\ IsSome(audit[w])
                  /\ Get(audit[w]).channels =
                        [email |-> TRUE, sms |-> TRUE, webhook |-> FALSE,
                         call |-> TRUE]
                  /\ Get(audit[w]).userId = UserIdOf(event[w])
            /\ outcome[w] = "failed" => IsNone(audit[w])

\* the end-to-end case with the record published and the three channels sent
C22_Witness ==
    \E w \in Workers :
        /\ EndToEndCase(w)
        /\ outcome[w] = "processed" /\ IsSome(audit[w])
        /\ Attempted(w) = {"EMAIL", "SMS", "VOICE"}

\* C23: a channel whose provider credentials are not set completes its send
\* as a logged no-op: one call of the adapter, no provider call, nothing
\* thrown; the handler goes on through the remaining channel blocks to the
\* audit call.
C23_UnconfiguredIsNoOp ==
    \A w \in Workers :
        /\ \A s \in sent[w] :
              (s.channel # "WEBHOOK" /\ s.channel \notin configured) =>
                  (s.result = "logged" /\ s.calls = 1)
        /\ outcome[w] \notin {"aborted"}
        /\ (PastChannels(w) /\ configured = {}) =>
              \A channel \in Channels :
                  IsSome(TargetOf(w, channel)) => channel \in Attempted(w)
        /\ (EndedForKnownUser(w) /\ configured = {}) => auditCalls[w] = 1

\* email, SMS and call all logged for want of credentials, the event processed
C23_Witness ==
    \E w \in Workers :
        /\ configured = {}
        /\ outcome[w] = "processed"
        /\ Attempted(w) = {"EMAIL", "SMS", "VOICE"}
        /\ \A s \in sent[w] : s.result = "logged"

\* what the receiver of a request recomputes from the header timestamp, the
\* body it received and the shared secret
ReceiverSignature(req, secret) ==
    generateSignature(req.headers.timestamp \o <<".">> \o req.body, secret)

\* C24: a request sent with a secret S carries in X-Webhook-Signature the
\* HMAC-SHA256 with key S over "T.B", T being the X-Webhook-Timestamp value
\* of that request (the decimal clock reading) and B the body of that
\* request, so that the receiver's own computation gives the same value;
\* another secret does not.  Without a secret no signature header is sent.
C24_SignatureVerifiable ==
    IsSome(request) =>
        LET call == Get(request)
            req == call.sent
        IN  /\ req.headers.timestamp = NumberToString(call.ms)
            /\ req.body = JsonStringify(call.data)
            /\ Truthy(call.secret) =>
                  /\ IsSome(req.headers.signature)
                  /\ Get(req.headers.signature)
                        = ReceiverSignature(req, Get(call.secret))
                  /\ \A other \in {<<"s1">>, <<"s2">>} \ {Get(call.secret)} :
                        Get(req.headers.signature) # ReceiverSignature(req, other)
                  /\ req.headers.signatureVersion = Some("v1")
            /\ ~Truthy(call.secret) =>
                  (IsNone(req.headers.signature)
                   /\ IsNone(req.headers.signatureVersion))

\* a request signed with s1 at clock 1000 that the receiver verifies
C24_Witness ==
    /\ IsSome(request)
    /\ Get(request).secret = Some(<<"s1">>)
    /\ Get(request).sent.headers.timestamp = <<"1", "0", "0", "0">>
    /\ Get(request).sent.headers.signature
          = Some(ReceiverSignature(Get(request).sent, <<"s1">>))

\* the incident identifier an event carries, under whichever of the field
\* names of the producers it is written
CarriedId(ev) ==
    IF Truthy(ev.dataTxId) THEN ev.dataTxId
    ELSE IF Truthy(ev.tx_id) THEN ev.tx_id
    ELSE IF Truthy(ev.id) THEN ev.id
    ELSE ev.camelTxId

\* C25 as stated: two events of one user that carry different incident
\* identifiers are checked under different lease keys, and the one is not
\* discarded as a duplicate on the lease the other has claimed.
C25_DistinctIdsDistinctKeys ==
    \A a \in Workers : \A b \in Workers \ {a} :
        (/\ shouldSend[a].done /\ shouldSend[b].done
         /\ UserIdOf(event[a]) = UserIdOf(event[b])
         /\ IsSome(CarriedId(event[a])) /\ IsSome(CarriedId(event[b]))
         /\ CarriedId(event[a]) # CarriedId(event[b]))
        => /\ KeyOf(a) # KeyOf(b)
           /\ ~(Passed(a) /\ pc[a] # "idle" /\ Duplicate(b))

\* the event of worker w carries no incident identifier the handler reads
NoIncidentId(w) ==
    ~Truthy(event[w].dataTxId) /\ ~Truthy(event[w].tx_id) /\ ~Truthy(event[w].id)
\* the one lease key of the events of a user that carry no identifier
SharedKey(userId) == <<"alert", ":">> \o userId \o <<":", "unknown_tx">>

\* C26: an event without incident identifier is checked under the key
\* alert:{userId}:unknown_tx, the same for all such events of the user; of two
\* workers holding such events of one user, both answered by the cache, at
\* most one holds a go unless their checks are a TTL apart, and the sends made
\* under that key are a TTL apart.
C26_NoIdSharesLease ==
    /\ \A w \in Workers :
          (shouldSend[w].done /\ NoIncidentId(w)) =>
              /\ KeyOf(w) = SharedKey(UserIdOf(event[w]))
              /\ (Passed(w) /\ pc[w] # "idle") =>
                    /\ leases[SharedKey(UserIdOf(event[w]))]
                          >= claimedAt[w] + DEDUP_TTL_SECONDS
                    /\ \A v \in Workers \ {w} :
                          (/\ NoIncidentId(v) /\ Passed(v) /\ pc[v] # "idle"
                           /\ UserIdOf(event[v]) = UserIdOf(event[w]))
                          => Apart(claimedAt[w], claimedAt[v])
    /\ \A u \in UserIds :
          \A i, j \in DOMAIN dispatched[SharedKey(u)] :
              i # j => Apart(dispatched[SharedKey(u)][i], dispatched[SharedKey(u)][j])

\* two events without identifier: the first was let through and is being
\* handled, the second is discarded on its live lease
C26_Witness ==
    \E a \in Workers : \E b \in Workers \ {a} :
        /\ NoIncidentId(a) /\ NoIncidentId(b)
        /\ Passed(a) /\ pc[a] \in {"resolve", "email", "sms"}
        /\ Duplicate(b) /\ shouldSend[b].viaCache
        /\ Live(leases, SharedKey(U1), now)

RowOf(w) == Get(db[UserIdOf(event[w])])
\* the event of worker w has a phone number to reach, from the row or from
\* the event
HasPhone(w) ==
    \/ IsSome(Get(RowOf(w).notificationSettings).phoneNumber)
    \/ IsSome(event[w].phone)

ChannelEntry(a, channel) ==
    IF channel = "EMAIL" THEN a.channels.email
    ELSE IF channel = "SMS" THEN a.channels.sms
    ELSE IF channel = "WEBHOOK" THEN a.channels.webhook
    ELSE a.channels.call
\* the channel is permitted for worker w's event: by the entitlement rules,
\* or for the webhook by the event carrying a URL
PermittedFor(w, channel) ==
    IF channel = "WEBHOOK" THEN IsSome(event[w].webhookUrl)
    ELSE canSendNotification(Get(userContext[w]), channel, SeverityOf(event[w]))
\* worker w's handler has ended with its alert event produced
Audited(w) == pc[w] = "idle" /\ IsSome(audit[w]) /\ IsSome(userContext[w])

StepsLeft(p) ==
    CASE p = "idle" -> 0 [] p = "audit" -> 1 [] p = "call" -> 2
      [] p = "webhook" -> 3 [] p = "sms" -> 4 [] p = "email" -> 5
      [] p = "resolve" -> 6 [] p = "dedup" -> 7
\* what the handler of worker w has done for its event
Progress(w) == <<shouldSend[w], userContext[w], sent[w], audit[w], auditCalls[w]>>

C31_WebhookHeaders ==
    IsSome(request) =>
        LET call == Get(request)
            h == call.sent.headers
        IN  /\ h.timestamp = NumberToString(call.ms) /\ Len(h.timestamp) >= 1
            /\ IsSome(h.signature) <=> Truthy(call.secret)
            /\ IsSome(h.signatureVersion) <=> Truthy(call.secret)
            /\ IsSome(h.signatureVersion) => h.signatureVersion = Some("v1")

\* a request sent without a secret: the timestamp header alone
C31_Witness ==
    /\ IsSome(request)
    /\ Get(request).secret = None
    /\ Get(request).sent.headers.timestamp = <<"9">>
    /\ IsNone(Get(request).sent.headers.signature)
    /\ IsNone(Get(request).sent.headers.signatureVersion)

\* C32: for an event that passed the duplicate check and whose user was
\* found, the webhook adapter is called iff the event carries a webhook URL,
\* and then with that URL, whatever the plan, the settings and the severity;
\* the webhook block itself decides nothing else.
C32_WebhookIffUrl ==
    /\ [](\A w \in Workers :
             (IsSome(userContext[w]) /\ pc[w] \in {"call", "audit", "idle"}) =>
                 /\ "WEBHOOK" \in Attempted(w) <=> IsSome(event[w].webhookUrl)
                 /\ \A s \in sent[w] :
                       s.channel = "WEBHOOK" => Some(s.to) = event[w].webhookUrl)
    /\ [][\A w \in Workers :
             (pc[w] = "webhook" /\ pc'[w] # "webhook") =>
                 ("WEBHOOK" \in Attempted(w)' <=> IsSome(event[w].webhookUrl))]_vars

\* a FREE user with email and phone disabled, a MEDIUM event: the webhook is
\* the only channel attempted
C32_Witness ==
    \E w \in Workers :
        /\ PastChannels(w)
        /\ Get(userContext[w]).plan = "FREE"
        /\ ~Get(userContext[w]).settings.emailEnabled
        /\ ~Get(userContext[w]).settings.phoneEnabled
        /\ SeverityOf(event[w]) = "MEDIUM"
        /\ Attempted(w) = {"WEBHOOK"}

C34_VoiceNeedsPhoneEnabled ==
    \A w \in Workers :
        (IsSome(userContext[w]) /\ "VOICE" \in Attempted(w)) =>
            Get(userContext[w]).settings.phoneEnabled

\* the contact of a medium the context of worker w has stored
StoredContact(w, channel) ==
    IF channel = "EMAIL" THEN Get(userContext[w]).email
    ELSE Get(userContext[w]).phone
\* the contact of a medium the event of worker w carries
EventContact(w, channel) ==
    IF channel = "EMAIL" THEN event[w].email ELSE event[w].phone

\* C35: an email, an SMS or a call goes to the stored contact of its medium
\* whenever the context has one, whatever the event carries; it goes to the
\* contact carried on the event only when the context has none.
C35_StoredContactFirst ==
    \A w \in Workers :
        IsSome(userContext[w]) =>
            \A s \in sent[w] :
                s.channel \in {"EMAIL", "SMS", "VOICE"} =>
                    /\ IsSome(StoredContact(w, s.channel)) =>
                          Some(s.to) = StoredContact(w, s.channel)
                    /\ IsNone(StoredContact(w, s.channel)) =>
                          Some(s.to) = EventContact(w, s.channel)

\* an event carrying both contacts: the email went to the stored address,
\* the SMS, for lack of a stored number, to the number of the event
C35_Witness ==
    \E w \in Workers :
        /\ IsSome(userContext[w])
        /\ event[w].email = Some("ev@mail") /\ event[w].phone = Some("+ev")
        /\ \E s \in sent[w] : s.channel = "EMAIL" /\ s.to = "db@mail"
        /\ \E s \in sent[w] : s.channel = "SMS" /\ s.to = "+ev"

\* C36: every call of a provider made by an adapter has a timeout, the
\* adapter's promise settles no later than that timeout, and when the
\* provider takes longer the promise rejects, so that retry counts a failed
\* attempt and calls again.
C36_TimeoutsBoundEveryCall ==
    IsSome(awaited) =>
        LET a == Get(awaited)
        IN  a.outcome # "logged" =>
                /\ IsSome(a.timeout)
                /\ IsSome(a.settledAfter)
                /\ Get(a.settledAfter) <= Get(a.timeout)
                /\ Exceeds(a.latency, Get(a.timeout)) =>
                       (IsError(Get(a.returned)) /\ a.calls > 1)

\* the event of worker w was let through by the cache and then dropped
\* because its lookup gave no user
Dropped(w) == pc[w] = "idle" /\ outcome[w] = "unknown_user" /\ Passed(w)

C39_AuditSeverityIsEvaluated ==
    \A w \in Workers :
        IsSome(audit[w]) =>
            Get(audit[w]).severity = Some(SeverityOf(Get(audit[w]).sourceEvent))

=============================================================================
